---- MODULE Spec2Model ----
(***************************************************************************)
(* tom_pittgoogle: ConsumerStreamPython (consumer_stream_python.py).       *)
(*                                                                         *)
(* The driver thread runs stream_alerts; the Pub/Sub client runs           *)
(* ConsumerStreamPython.callback once per delivered message in its         *)
(* scheduler's thread pool, so callbacks of different messages interleave  *)
(* with each other and with the driver.  At most max_backlog messages are  *)
(* delivered and not yet acked or nacked (FlowControl.max_messages).       *)
(*                                                                         *)
(* Pub/Sub client behaviour assumed (google-cloud-pubsub 2.x):             *)
(*   - an exception that leaves the callback is logged, the client nacks   *)
(*     the message and sets the exception on the streaming pull future,    *)
(*     unless the future is already resolved;                              *)
(*   - future.cancel() stops delivery; future.result() returns once the    *)
(*     shutdown is done, without waiting for callbacks that still run      *)
(*     (await_callbacks_on_shutdown is off), and raises the exception set  *)
(*     on the future, if any.                                              *)
(***************************************************************************)
EXTENDS Integers, Sequences, FiniteSets, TLC

\* ---------------------------------------------------------------- bounds
NumMsgs == 2            \* messages waiting on the subscription
MaxResultsTried == 2    \* largest max_results a run is started with
MaxStop == 12           \* largest max_results the driver loop is run with
MaxCalls == 3           \* subscription calls made on one consumer
MaxRuns == 2            \* calls of stream_alerts on one consumer
MaxRestResults == 2     \* largest max_results the REST broker is asked for

\* ------------------------------------------------------- python values
NoneV == [t |-> "none", v |-> 0]
IntV(n) == [t |-> "int", v |-> n]
OtherV == [t |-> "other", v |-> 0]      \* a value that is not an int (1.5, "3")
Absent == [t |-> "absent", v |-> 0]     \* the key is not in the dict
IsNone(x) == x.t = "none"

RECURSIVE BitAnd(_, _)
\* Python's int & int on non-negative operands
BitAnd(a, b) ==
    IF a = 0 \/ b = 0 THEN 0
    ELSE (a % 2) * (b % 2) + 2 * BitAnd(a \div 2, b \div 2)

\* ------------------------------------------------ _clean_flow_configs
DefaultMaxResults == 10
DefaultTimeout == 30
DefaultMaxBacklog == 1000

defaults ==
    [max_results |-> IntV(DefaultMaxResults),
     timeout     |-> IntV(DefaultTimeout),
     max_backlog |-> IntV(DefaultMaxBacklog)]

FlowKeys == {"max_results", "timeout", "max_backlog"}

\* result >= 0 in place of result > 0
correct_type_AllowsZero(result) ==
    IsNone(result) \/ (result.t = "int" /\ result.v >= 0)

\* result is None or (type(result) == int and result > 0)
correct_type(result) ==
    IsNone(result) \/ (result.t = "int" /\ result.v > 0)

\* flow_configs is a dict (a record over FlowKeys, Absent for a missing key)
\* or None.  flow_configs[key] on None raises TypeError, which the
\* "except KeyError" does not catch; the finally block then reads the unbound
\* name result and raises UnboundLocalError.
clean_flow_config_posint_or_none(key, flow_configs) ==
    IF flow_configs = NoneV
    THEN [err |-> "UnboundLocalError", val |-> NoneV]
    ELSE LET result == IF flow_configs[key] = Absent
                       THEN defaults[key]
                       ELSE flow_configs[key]
         IN  IF correct_type(result)
             THEN [err |-> "", val |-> result]
             ELSE [err |-> "ValueError", val |-> NoneV]

\* _clean_flow_configs without lines 448-459
clean_flow_configs_NoClamp(flow_configs) ==
    LET c == [key \in FlowKeys |->
                 clean_flow_config_posint_or_none(key, flow_configs)]
        bad == {key \in FlowKeys : c[key].err # ""}
        mb0 == IF IsNone(c["max_backlog"].val)
               THEN defaults["max_backlog"]
               ELSE c["max_backlog"].val
    IN  IF bad # {}
        THEN [err |-> c[CHOOSE key \in bad : TRUE].err,
              max_results |-> NoneV, timeout |-> NoneV, max_backlog |-> NoneV]
        ELSE [err |-> "",
              max_results |-> c["max_results"].val,
              timeout |-> c["timeout"].val,
              max_backlog |-> mb0]

clean_flow_configs(flow_configs) ==
    LET c == [key \in FlowKeys |->
                 clean_flow_config_posint_or_none(key, flow_configs)]
        bad == {key \in FlowKeys : c[key].err # ""}
        mr == c["max_results"].val
        mb0 == IF IsNone(c["max_backlog"].val)
               THEN defaults["max_backlog"]
               ELSE c["max_backlog"].val
        mb == IF ~IsNone(mr) /\ mb0.v > mr.v THEN mr ELSE mb0
    IN  IF bad # {}
        THEN [err |-> c[CHOOSE key \in bad : TRUE].err,
              max_results |-> NoneV, timeout |-> NoneV, max_backlog |-> NoneV]
        ELSE [err |-> "",
              max_results |-> mr,
              timeout |-> c["timeout"].val,
              max_backlog |-> mb]

\* ------------------------------------------------------------ inputs
SendData == {"alert_dict", "alert_bytes", "full_msg"}
\* how unpacking message.data ends: avro_to_dict raises on a malformed payload,
\* _lighten_alert raises KeyError on a record that lacks a requested field
UnpackOutcomes == {"ok", "DecodeError", "KeyError"}
\* the user_callback's behaviour on one message
UserOutcomes == {"raise", "nack", "ack_None", "ack_absent", "ack_result"}
\* user_kwargs may or may not hold the keys that callback reads from kwargs
KwMaxResults == {"absent", "none", "set"}

FlowValues == {NoneV} \cup {IntV(n) : n \in 1..MaxResultsTried}
FlowConfigInputs ==
    [max_results : FlowValues, timeout : {NoneV, IntV(DefaultTimeout)},
     max_backlog : FlowValues]

\* the arguments of one call of stream_alerts; user_kwargs is reduced to the
\* two keys that callback reads from kwargs
StreamAlertsArgs ==
    [send_data : SendData, user_callback : BOOLEAN, return_list : BOOLEAN,
     flow_configs : FlowConfigInputs, has_send_metadata : BOOLEAN,
     kw_max_results : KwMaxResults]

\* --------------------------------------------------------- callback
\* lines 277-296 with _unpack and _lighten_alert: "ok" or the exception caught.
\* decoded is how avro_to_dict and _lighten_alert would end on this payload;
\* they run only for send_data = 'alert_dict', and _lighten_alert only when the
\* topic is ztf-loop.
Unpack(send_data, has_send_metadata, topic, decoded) ==
    IF send_data = "full_msg" THEN "ok"
    ELSE IF ~has_send_metadata THEN "KeyError_send_metadata"  \* line 283
    ELSE IF send_data = "alert_bytes" THEN "ok"
    ELSE IF decoded = "DecodeError" THEN "DecodeError"
    ELSE IF topic = "ztf-loop" /\ decoded = "KeyError" THEN "KeyError"
    ELSE "ok"

UnpackRaised_KeyErrorOnly(u) == u \in {"KeyError", "KeyError_send_metadata"}
\* line 286: except Exception
UnpackRaised(u) == u # "ok"

AckOf_IgnoresRaise(user) == user # "nack"
AckOf_IgnoresResponse(user) == user # "raise"
\* lines 298-333: the value of ack after the user_callback block
AckOf(user) == user \notin {"raise", "nack"}

\* line 328 and 336-341: response.get("result", msg_data) is None only when
\* the user_callback returned result=None explicitly
CountOf(user) == IF user = "ack_None" THEN 0 ELSE 1

ResultOf(user) == IF user = "ack_result" THEN "user_result" ELSE "msg_data"

\* lines 345-347: kwargs['max_results'] is a key of user_kwargs, if at all
AfterPut(kw_max_results) ==
    CASE kw_max_results = "absent" -> "KeyError"
      [] kw_max_results = "none"   -> "ack"
      [] OTHER                     -> "join"

\* ----------------------------------------------------------- driver
\* line 247 with the comparison evaluated first:
\* flow_configs['max_results'] & (num_saved >= flow_configs['max_results'])
StopTest_ComparisonFirst(max_results, n) ==
    IF IsNone(max_results) THEN "TypeError"
    ELSE IF BitAnd(max_results.v, IF n >= max_results.v THEN 1 ELSE 0) # 0
         THEN "break"
    ELSE "continue"

\* the loop without the break of lines 247-248
StopTest_NeverBreaks(max_results, n) ==
    IF IsNone(max_results) THEN "TypeError" ELSE "continue"

\* line 247: flow_configs['max_results'] & num_saved >= flow_configs['max_results']
\* parses as (max_results & num_saved) >= max_results; None & int is a TypeError
StopTest(max_results, n) ==
    IF IsNone(max_results) THEN "TypeError"
    ELSE IF BitAnd(max_results.v, n) >= max_results.v THEN "break"
    ELSE "continue"

GetTimesOut_BlocksForever(timeout, q) == FALSE
\* line 242: queue.get(block=True, timeout=...) raises Empty
GetTimesOut(timeout, q) == ~IsNone(timeout) /\ q = <<>>

\* ------------------------------------------------------------ state
VARIABLES
    topic_path,             \* "ztf-loop" or another topic (set by __init__)
    drv,                    \* where the driver is in stream_alerts
    callback_kwargs,        \* self.callback_kwargs
    num_saved,              \* local of stream_alerts
    queue,                  \* self.queue: the items put and not yet got
    unfinished_tasks,       \* self.queue.unfinished_tasks (put minus task_done)
    database_list,          \* self.database_list
    streaming_pull_future,  \* [state, exc]
    msgs,                   \* per message: the callback's position and effects
    delivered,              \* number of messages handed to callback so far
    outcome,                \* how stream_alerts ended
    consumer,               \* the class of the consumer object
    subscription,           \* Pub/Sub: "absent" or the topic it is bound to
    topics,                 \* Pub/Sub: the topics that exist upstream
    calls,                  \* the subscription calls made so far, in order
    save_fields,            \* self.save_fields
    alert_dict,             \* the decoded alert handed to _lighten_alert
    alert_lite,             \* what _lighten_alert returned or raised
    message,                \* the Pub/Sub message handed to _extract_metadata
    metadata_dict,          \* what _extract_metadata returned
    run,                    \* number of calls of stream_alerts so far
    rest_pc,                \* where the REST broker's fetch_alerts is
    rest_max_results,       \* parameters['max_results'] of fetch_alerts
    tries,                  \* fetch_alerts: i
    alerts,                 \* fetch_alerts: len(alerts)
    max_messages,           \* maxMessages of the last pull request
    received,               \* the last pull response
    events,                 \* what the last _request_alerts did, in order
    oversized               \* some pull returned more messages than asked for

subvars == <<consumer, subscription, topics, calls>>
alertvars == <<save_fields, alert_dict, alert_lite, message, metadata_dict>>
restvars == <<rest_pc, rest_max_results, tries, alerts, max_messages, received,
              events, oversized>>

vars == <<topic_path, drv, callback_kwargs, num_saved, queue, unfinished_tasks,
          database_list, streaming_pull_future, msgs, delivered, outcome,
          subvars, alertvars, run, restvars>>

M == 1..NumMsgs

\* ------------------------------------------------------ subscription
\* the topic __init__ expects: projects/<Pitt-Google>/topics/<subscription_name>
ExpectedTopic == "ztf-loop"
Topics == {"ztf-loop", "other"}
Classes ==
    {"ConsumerStreamPython", "PittGoogleConsumer", "PittGoogleConsumerPython"}

\* the state after a successful ConsumerStreamPython(subscription_name)
SubscriptionReady ==
    /\ consumer = "ConsumerStreamPython"
    /\ subscription = ExpectedTopic
    /\ topics = {ExpectedTopic}
    /\ calls = <<[op |-> "__init__", err |-> "", create_request |-> FALSE]>>

\* -------------------------------------------------------- projection
\* field names of an alert; the names a save_fields list may hold
Names == {"a", "b", "c", "x"}
Listed == {"a", "b"}

\* _set_save_fields(None), lines 396-400, with the ZTF field names reduced to
\* one name per group
DefaultSaveFields ==
    [g \in {"top-level", "candidate", "metadata"} |->
        CASE g = "top-level" -> {"a"}
          [] g = "candidate" -> {"b"}
          [] OTHER           -> {"a"}]

NoAlert == [root |-> {}, group_name |-> "", nested |-> {}]
\* a value of a message or of a metadata dict: its python type and where it
\* comes from, <<"message", field, "">> or <<"attribute", key, value>>
Value(type, of) == [type |-> type, of |-> of]
NoMessage ==
    [message_id |-> Value("none", <<"", "", "">>),
     publish_time |-> Value("none", <<"", "", "">>), attributes |-> {}]
NotYet == [err |-> "-", dict |-> {}]

NoAlertYet ==
    /\ save_fields = DefaultSaveFields
    /\ alert_dict = NoAlert
    /\ alert_lite = NotYet
    /\ message = NoMessage
    /\ metadata_dict = NotYet

\* a pull response: the HTTP status is 200 or an error status; the JSON body
\* has the key receivedMessages or not; each message has its ackId and the way
\* its processing ends
NoResponse == [ok |-> FALSE, key |-> FALSE, messages |-> <<>>]

\* before the first call of stream_alerts
NoRunYet == run = 0

\* broker_stream_rest.py: fetch_alerts has not been called
RestIdle ==
    /\ rest_pc = "idle"
    /\ rest_max_results = 0
    /\ tries = 0
    /\ alerts = 0
    /\ max_messages = 0
    /\ received = NoResponse
    /\ events = <<>>
    /\ oversized = FALSE

NewMsg ==
    [pc |-> "sub", disp |-> "none", unpack |-> "-", user |-> "-",
     count |-> -1, taken |-> FALSE, escaped |-> FALSE,
     run |-> 0, kw |-> "-", ack_calls |-> 0, nack_calls |-> 0]

Init ==
    /\ topic_path = "ztf-loop"
    /\ drv = "idle"
    /\ callback_kwargs =
          [send_data |-> "alert_dict", user_callback |-> FALSE,
           return_list |-> FALSE, has_send_metadata |-> FALSE,
           kw_max_results |-> "absent",
           flow_configs |-> clean_flow_configs([k \in FlowKeys |-> Absent])]
    /\ num_saved = 0
    /\ queue = <<>>
    /\ unfinished_tasks = 0
    /\ database_list = <<>>
    /\ streaming_pull_future = [state |-> "none", exc |-> ""]
    /\ msgs = [i \in M |-> NewMsg]
    /\ delivered = 0
    /\ outcome = [kind |-> "running", reason |-> "", err |-> "", list |-> <<>>]
    /\ SubscriptionReady
    /\ NoAlertYet
    /\ NoRunYet
    /\ RestIdle

flow_configs == callback_kwargs.flow_configs

\* lines 204-239: validate, set callback_kwargs, subscribe
stream_alerts(args) ==
    LET clean == clean_flow_configs(args.flow_configs) IN
    /\ drv = "idle"
    /\ IF clean.err # ""
       THEN /\ drv' = "raised"
            /\ outcome' = [outcome EXCEPT !.kind = "raise", !.reason = "error",
                                          !.err = clean.err]
            /\ UNCHANGED <<callback_kwargs, streaming_pull_future>>
       ELSE /\ drv' = "get"
            /\ callback_kwargs' =
                  [args EXCEPT !.flow_configs = clean]
            /\ streaming_pull_future' = [state |-> "running", exc |-> ""]
            /\ UNCHANGED outcome
    /\ num_saved' = 0
    /\ run' = run + 1
    /\ UNCHANGED <<subvars, alertvars, restvars, topic_path, queue, unfinished_tasks, database_list, msgs,
                   delivered>>

\* lines 241-248: one pass of the loop that gets an item
DriverGet ==
    /\ drv = "get"
    /\ queue # <<>>
    /\ LET item == Head(queue)
           n == num_saved + item.count
           test == StopTest(flow_configs.max_results, n)
       IN  /\ num_saved' = n
           /\ queue' = Tail(queue)
           /\ unfinished_tasks' = unfinished_tasks - 1
           /\ msgs' = [msgs EXCEPT ![item.m].taken = TRUE]
           /\ drv' = CASE test = "TypeError" -> "except_cancel"
                       [] test = "break"     -> "cancel"
                       [] OTHER              -> "get"
           /\ outcome' = CASE test = "TypeError" ->
                                [outcome EXCEPT !.reason = "error",
                                                !.err = "TypeError"]
                           [] test = "break" ->
                                [outcome EXCEPT !.reason = "max_results"]
                           [] OTHER -> outcome
    /\ UNCHANGED <<subvars, alertvars, restvars, run, topic_path, callback_kwargs, database_list,
                   streaming_pull_future, delivered>>

\* lines 243-244: Empty
DriverTimeout ==
    /\ drv = "get"
    /\ GetTimesOut(flow_configs.timeout, queue)
    /\ drv' = "cancel"
    /\ outcome' = [outcome EXCEPT !.reason = "timeout"]
    /\ UNCHANGED <<subvars, alertvars, restvars, run, topic_path, callback_kwargs, num_saved, queue,
                   unfinished_tasks, database_list, streaming_pull_future,
                   msgs, delivered>>

\* _stop without its first line: result() is awaited on a pull never cancelled
StopCancel_ResultOnly ==
    /\ drv \in {"cancel", "except_cancel"}
    /\ drv' = IF drv = "cancel" THEN "result" ELSE "except_result"
    /\ UNCHANGED <<subvars, alertvars, restvars, run, topic_path, callback_kwargs, num_saved, queue,
                   unfinished_tasks, database_list, streaming_pull_future,
                   msgs, delivered, outcome>>

\* line 423, called from line 249 or from line 255
StopCancel ==
    /\ drv \in {"cancel", "except_cancel"}
    /\ streaming_pull_future' =
          IF streaming_pull_future.state = "running"
          THEN [streaming_pull_future EXCEPT !.state = "cancelled"]
          ELSE streaming_pull_future
    /\ drv' = IF drv = "cancel" THEN "result" ELSE "except_result"
    /\ UNCHANGED <<subvars, alertvars, restvars, run, topic_path, callback_kwargs, num_saved, queue,
                   unfinished_tasks, database_list, msgs, delivered, outcome>>

\* line 424 called from line 249, then lines 258-268
StopResult ==
    /\ drv = "result"
    /\ IF streaming_pull_future.exc # ""
       THEN /\ drv' = "except_cancel"
            /\ outcome' = [outcome EXCEPT !.err = streaming_pull_future.exc]
       ELSE /\ drv' = "returned"
            /\ outcome' =
                  [kind |-> IF callback_kwargs.return_list THEN "list" ELSE "None",
                   reason |-> outcome.reason,
                   err |-> "",
                   list |-> IF callback_kwargs.return_list
                            THEN database_list ELSE <<>>]
    /\ streaming_pull_future' = [streaming_pull_future EXCEPT !.state = "done"]
    /\ UNCHANGED <<subvars, alertvars, restvars, run, topic_path, callback_kwargs, num_saved, queue,
                   unfinished_tasks, database_list, msgs, delivered>>

\* line 424 called from line 255, then line 256
ExceptResult ==
    /\ drv = "except_result"
    /\ drv' = "raised"
    /\ outcome' = [outcome EXCEPT
                      !.kind = "raise",
                      !.err = IF streaming_pull_future.exc # ""
                              THEN streaming_pull_future.exc ELSE @]
    /\ streaming_pull_future' = [streaming_pull_future EXCEPT !.state = "done"]
    /\ UNCHANGED <<subvars, alertvars, restvars, run, topic_path, callback_kwargs, num_saved, queue,
                   unfinished_tasks, database_list, msgs, delivered>>

\* the client hands the next message to callback (lines 228-234)
Outstanding ==
    {i \in M : msgs[i].pc # "sub" /\ msgs[i].disp = "none" /\ msgs[i].run = run}

Deliver ==
    /\ streaming_pull_future.state = "running"
    /\ delivered < NumMsgs
    /\ Cardinality(Outstanding) < flow_configs.max_backlog.v
    /\ delivered' = delivered + 1
    /\ msgs' = [msgs EXCEPT ![delivered + 1] = [@ EXCEPT !.pc = "cb",
                                                    !.run = run]]
    /\ UNCHANGED <<subvars, alertvars, restvars, run, topic_path, drv, callback_kwargs, num_saved, queue,
                   unfinished_tasks, database_list, streaming_pull_future,
                   outcome>>

\* callback without the return of line 323: after message.nack() it goes on
\* to count, put and ack
callback_process_NackFallsThrough(i, decoded, user) ==
    LET kw == callback_kwargs
        u == Unpack(kw.send_data, kw.has_send_metadata, topic_path, decoded)
        o == IF kw.user_callback THEN user ELSE "no_callback"
    IN
    /\ msgs[i].pc = "cb"
    /\ IF UnpackRaised(u)
       THEN /\ msgs' = [msgs EXCEPT ![i] = [@ EXCEPT !.pc = "done",
                           !.disp = "nacked", !.unpack = u,
                           !.nack_calls = @ + 1]]
            /\ UNCHANGED database_list
       ELSE /\ msgs' = [msgs EXCEPT ![i] = [@ EXCEPT !.pc = "put",
                           !.disp = IF AckOf(o) THEN @ ELSE "nacked",
                           !.unpack = u, !.user = o, !.count = CountOf(o),
                           !.kw = kw.kw_max_results,
                           !.nack_calls = IF AckOf(o) THEN @ ELSE @ + 1]]
            /\ database_list' =
                  IF CountOf(o) = 1 /\ kw.return_list
                  THEN Append(database_list, [m |-> i, r |-> ResultOf(o)])
                  ELSE database_list
    /\ UNCHANGED <<subvars, alertvars, restvars, run, topic_path, drv,
                   callback_kwargs, num_saved, queue, unfinished_tasks,
                   streaming_pull_future, delivered, outcome>>

\* lines 275-341 for message i: unpack, user_callback, count and collect
callback_process(i, decoded, user) ==
    LET kw == callback_kwargs
        u == Unpack(kw.send_data, kw.has_send_metadata, topic_path, decoded)
        o == IF kw.user_callback THEN user ELSE "no_callback"
    IN
    /\ msgs[i].pc = "cb"
    /\ IF UnpackRaised(u)
       THEN /\ msgs' = [msgs EXCEPT ![i] = [@ EXCEPT !.pc = "done",
                           !.disp = "nacked", !.unpack = u,
                           !.nack_calls = @ + 1]]
            /\ UNCHANGED database_list
       ELSE IF ~AckOf(o)
       THEN /\ msgs' = [msgs EXCEPT ![i] = [@ EXCEPT !.pc = "done",
                           !.disp = "nacked", !.unpack = u, !.user = o,
                           !.nack_calls = @ + 1]]
            /\ UNCHANGED database_list
       ELSE /\ msgs' = [msgs EXCEPT ![i] = [@ EXCEPT !.pc = "put",
                           !.unpack = u, !.user = o, !.count = CountOf(o),
                           !.kw = kw.kw_max_results]]
            /\ database_list' =
                  IF CountOf(o) = 1 /\ kw.return_list
                  THEN Append(database_list, [m |-> i, r |-> ResultOf(o)])
                  ELSE database_list
    /\ UNCHANGED <<subvars, alertvars, restvars, run, topic_path, drv, callback_kwargs, num_saved, queue,
                   unfinished_tasks, streaming_pull_future, delivered, outcome>>

\* lines 344-345: queue.put(count), then the lookup kwargs['max_results'] in
\* the dict the callback read from self.callback_kwargs at line 275.
\* A KeyError leaves the callback: the client nacks the message and sets the
\* exception on the future of the callback's own pull (unless that future is
\* already resolved).
callback_put(i) ==
    LET next == AfterPut(msgs[i].kw) IN
    /\ msgs[i].pc = "put"
    /\ queue' = Append(queue, [m |-> i, count |-> msgs[i].count])
    /\ unfinished_tasks' = unfinished_tasks + 1
    /\ IF next = "KeyError"
       THEN /\ msgs' = [msgs EXCEPT ![i] = [@ EXCEPT !.pc = "done",
                           !.disp = "nacked", !.escaped = TRUE]]
            /\ streaming_pull_future' =
                  IF streaming_pull_future.exc = ""
                     /\ streaming_pull_future.state # "done"
                     /\ msgs[i].run = run
                  THEN [streaming_pull_future EXCEPT !.exc = "KeyError"]
                  ELSE streaming_pull_future
       ELSE /\ msgs' = [msgs EXCEPT ![i].pc = next]
            /\ UNCHANGED streaming_pull_future
    /\ UNCHANGED <<subvars, alertvars, restvars, run, topic_path, drv, callback_kwargs, num_saved, database_list,
                   delivered, outcome>>

\* line 347: queue.join() returns when every item put has been task_done
callback_join(i) ==
    /\ msgs[i].pc = "join"
    /\ unfinished_tasks = 0
    /\ msgs' = [msgs EXCEPT ![i].pc = "ack"]
    /\ UNCHANGED <<subvars, alertvars, restvars, run, topic_path, drv, callback_kwargs, num_saved, queue,
                   unfinished_tasks, database_list, streaming_pull_future,
                   delivered, outcome>>

\* lines 350-351
callback_ack(i) ==
    /\ msgs[i].pc = "ack"
    /\ msgs' = [msgs EXCEPT ![i] = [@ EXCEPT !.pc = "done", !.disp = "acked",
                                             !.ack_calls = @ + 1]]
    /\ UNCHANGED <<subvars, alertvars, restvars, run, topic_path, drv, callback_kwargs, num_saved, queue,
                   unfinished_tasks, database_list, streaming_pull_future,
                   delivered, outcome>>

Start == \E args \in StreamAlertsArgs : stream_alerts(args)

Process == \E i \in M, decoded \in UnpackOutcomes, user \in UserOutcomes :
              callback_process(i, decoded, user)
Put == \E i \in M : callback_put(i)
Join == \E i \in M : callback_join(i)
Ack == \E i \in M : callback_ack(i)

Driver == Start \/ DriverGet \/ DriverTimeout \/ StopCancel \/ StopResult
             \/ ExceptResult
Worker == Deliver \/ Process \/ Put \/ Join \/ Ack

Next == Driver \/ Worker

Spec == Init /\ [][Next]_vars

TypeOK ==
    /\ drv \in {"idle", "get", "cancel", "result", "except_cancel",
                "except_result", "returned", "raised", "stopped_again",
                "stop_again_raised", "new", "init_raised"}
    /\ num_saved \in 0..NumMsgs
    /\ unfinished_tasks = Len(queue)
    /\ delivered \in 0..NumMsgs

\* The subscription stays empty: callback never runs, the queue stays empty,
\* and the driver is the only thread that moves.  queue.get with a timeout
\* raises Empty once the timeout has passed, and cancel() and result() return.
IdleNext == Start \/ DriverTimeout \/ StopCancel \/ StopResult
IdleSpec == Init /\ [][IdleNext]_vars /\ WF_vars(IdleNext)

\* line 254: a KeyboardInterrupt reaches the driver while it is inside the try
\* block (lines 236-249): in queue.get, or in _stop's cancel() or result().
\* Control passes to the except clause, which calls _stop and re-raises.
KeyboardInterrupt ==
    /\ drv \in {"get", "cancel", "result"}
    /\ drv' = "except_cancel"
    /\ outcome' = [outcome EXCEPT !.reason = "error",
                                  !.err = "KeyboardInterrupt"]
    /\ UNCHANGED <<subvars, alertvars, restvars, run, topic_path, callback_kwargs, num_saved, queue,
                   unfinished_tasks, database_list, streaming_pull_future,
                   msgs, delivered>>

\* _stop (lines 421-424) called once more after stream_alerts has ended:
\* cancel() finds the pull already shut down and does nothing, result() returns
\* at once or raises the exception the future holds.
StopAgain ==
    /\ drv \in {"returned", "raised"}
    /\ streaming_pull_future.state = "done"
    /\ drv' = IF streaming_pull_future.exc = ""
              THEN "stopped_again" ELSE "stop_again_raised"
    /\ UNCHANGED <<subvars, alertvars, restvars, run, topic_path, callback_kwargs, num_saved, queue,
                   unfinished_tasks, database_list, streaming_pull_future,
                   msgs, delivered, outcome>>

StopNext == Next \/ KeyboardInterrupt \/ StopAgain
StopSpec == Init /\ [][StopNext]_vars

\* The driver loop on its own (lines 239-248), for any max_results up to
\* MaxStop: the run has been started with flow_configs = {'max_results': N},
\* and each callback is reduced to the increment it puts (line 344), one at a
\* time, as in a run whose callbacks wait in queue.join().
LoopInit ==
    /\ topic_path = "ztf-loop"
    /\ drv = "get"
    /\ \E N \in 1..MaxStop :
          callback_kwargs =
             [send_data |-> "full_msg", user_callback |-> TRUE,
              return_list |-> FALSE, has_send_metadata |-> FALSE,
              kw_max_results |-> "set",
              flow_configs |-> clean_flow_configs(
                  [max_results |-> IntV(N), timeout |-> Absent,
                   max_backlog |-> Absent])]
    /\ num_saved = 0
    /\ queue = <<>>
    /\ unfinished_tasks = 0
    /\ database_list = <<>>
    /\ streaming_pull_future = [state |-> "running", exc |-> ""]
    /\ msgs = [i \in M |-> NewMsg]
    /\ delivered = 0
    /\ outcome = [kind |-> "running", reason |-> "", err |-> "", list |-> <<>>]
    /\ SubscriptionReady
    /\ NoAlertYet
    /\ run = 1
    /\ RestIdle

PutIncrement ==
    /\ drv = "get"
    /\ queue = <<>>
    /\ num_saved <= MaxStop
    /\ \E count \in {0, 1} : queue' = <<[m |-> 1, count |-> count]>>
    /\ unfinished_tasks' = unfinished_tasks + 1
    /\ UNCHANGED <<subvars, alertvars, restvars, run, topic_path, drv, callback_kwargs, num_saved, database_list,
                   streaming_pull_future, msgs, delivered, outcome>>

LoopNext == PutIncrement \/ DriverGet
LoopSpec == LoopInit /\ [][LoopNext]_vars

\* Every thread keeps running: the driver goes on from wherever it is in
\* stream_alerts once it has been called (queue.get returns an item or times
\* out, cancel() and result() return), and the client's worker threads go on
\* with the callbacks they have been handed.  queue.join() has no timeout.
DriverSteps ==
    DriverGet \/ DriverTimeout \/ StopCancel \/ StopResult \/ ExceptResult
LiveSpec == Init /\ [][Next]_vars /\ WF_vars(DriverSteps) /\ WF_vars(Worker)

\* stream_alerts has returned or raised; the caller has the consumer again
\* and may call stream_alerts once more.  self.database_list (line 86) and
\* self.queue (line 117) are those of __init__; callbacks of the earlier pull
\* that have not finished go on running.
BackToCaller ==
    /\ drv \in {"returned", "raised"}
    /\ run < MaxRuns
    /\ drv' = "idle"
    /\ outcome' = [kind |-> "running", reason |-> "", err |-> "", list |-> <<>>]
    /\ UNCHANGED <<subvars, alertvars, restvars, run, topic_path,
                   callback_kwargs, num_saved, queue, unfinished_tasks,
                   database_list, streaming_pull_future, msgs, delivered>>

\* runs that collect: stream_alerts(send_data='full_msg', return_list=True,
\* flow_configs=..., **user_kwargs) without a user_callback
CollectArgs ==
    [send_data : {"full_msg"}, user_callback : {FALSE}, return_list : {TRUE},
     flow_configs : FlowConfigInputs, has_send_metadata : {FALSE},
     kw_max_results : KwMaxResults]

StartCollect == \E args \in CollectArgs : stream_alerts(args)

RerunNext ==
    \/ StartCollect \/ BackToCaller
    \/ DriverGet \/ DriverTimeout \/ StopCancel \/ StopResult \/ ExceptResult
    \/ Worker
RerunSpec == Init /\ [][RerunNext]_vars

\* ------------------------------------------------------- validation
\* what a caller may put under a key of flow_configs: nothing, None, a value
\* that is not an int, a non-positive int, a positive int
RawFlowValues ==
    {Absent, NoneV, OtherV, IntV(-1), IntV(0)}
        \cup {IntV(n) : n \in 1..MaxResultsTried}

\* flow_configs is None (the default of stream_alerts) or a dict
RawFlowConfigs ==
    {NoneV} \cup [max_results : RawFlowValues, timeout : RawFlowValues,
                  max_backlog : RawFlowValues]

ValidationArgs ==
    [send_data : {"full_msg"}, user_callback : {FALSE}, return_list : {TRUE},
     flow_configs : RawFlowConfigs, has_send_metadata : {FALSE},
     kw_max_results : KwMaxResults]

StartAny == \E args \in ValidationArgs : stream_alerts(args)

\* broker_stream_python.py, BrokerStreamPython._clean_parameters
clean_parameters(parameters) ==
    IF IsNone(parameters.max_results) /\ IsNone(parameters.timeout)
    THEN [err |-> "ValueError", parameters |-> parameters]
    ELSE [err |-> "",
          parameters |-> [parameters EXCEPT
              !.max_backlog = IF IsNone(@) THEN IntV(DefaultMaxBacklog) ELSE @]]

\* the form's cleaned data: each field is empty (None) or a positive integer
FormParameters ==
    [max_results : FlowValues, timeout : FlowValues, max_backlog : FlowValues]

\* broker_stream_python.py, BrokerStreamPython.fetch_alerts: the parameters
\* go to stream_alerts as the user kwarg 'parameters'; flow_configs is not
\* passed and keeps its default, None.
fetch_alerts(parameters) ==
    LET clean_params == clean_parameters(parameters) IN
    IF clean_params.err # ""
    THEN /\ drv = "idle"
         /\ drv' = "raised"
         /\ outcome' = [outcome EXCEPT !.kind = "raise",
                           !.reason = "no stopping condition",
                           !.err = clean_params.err]
         /\ UNCHANGED <<subvars, alertvars, restvars, run, topic_path, callback_kwargs, num_saved, queue,
                        unfinished_tasks, database_list,
                        streaming_pull_future, msgs, delivered>>
    ELSE stream_alerts(
             [send_data |-> "alert_dict", user_callback |-> FALSE,
              return_list |-> FALSE, flow_configs |-> NoneV,
              has_send_metadata |-> FALSE, kw_max_results |-> "absent"])

FetchAlerts == \E parameters \in FormParameters : fetch_alerts(parameters)

ValidNext ==
    \/ StartAny \/ FetchAlerts
    \/ DriverGet \/ DriverTimeout \/ StopCancel \/ StopResult \/ ExceptResult
    \/ Worker
ValidSpec == Init /\ [][ValidNext]_vars

\* --------------------------------------------- subscription methods
\* The Pub/Sub service answers from its state: get_subscription and
\* delete_subscription raise NotFound (REST: 404) when the subscription is
\* absent, create_subscription raises NotFound when the topic does not exist.

\* _create_subscription that takes the request's NotFound for a success
CreateSubscription_IgnoresNotFound(cls, sub, tpcs, tp) ==
    LET topic == IF cls = "PittGoogleConsumer" THEN ExpectedTopic ELSE tp IN
    [err |-> "", subscription |-> IF topic \in tpcs THEN topic ELSE sub,
     topic_path |-> topic, create_request |-> TRUE]

\* consumer_stream_python.py lines 584-606, consumer_stream_rest.py lines
\* 115-145, stash/pittgoogle_consumer_python.py lines 65-81.  The REST
\* consumer builds the topic from the subscription name and sets topic_path
\* on success; the others create on self.topic_path.
CreateSubscription(cls, sub, tpcs, tp) ==
    LET topic == IF cls = "PittGoogleConsumer" THEN ExpectedTopic ELSE tp IN
    IF topic \in tpcs
    THEN [err |-> "", subscription |-> topic, topic_path |-> topic,
          create_request |-> TRUE]
    ELSE [err |-> "ValueError", subscription |-> sub, topic_path |-> tp,
          create_request |-> TRUE]

\* touch_subscription without the get_subscription check
TouchSubscription_AlwaysCreates(cls, sub, tpcs, tp) ==
    CreateSubscription(cls, sub, tpcs, tp)

\* touch_subscription without line 577
TouchSubscription_KeepsTopicPath(cls, sub, tpcs, tp) ==
    IF sub # "absent"
    THEN [err |-> "", subscription |-> sub, topic_path |-> tp,
          create_request |-> FALSE]
    ELSE CreateSubscription(cls, sub, tpcs, tp)

\* consumer_stream_python.py lines 560-582 (touch_subscription),
\* consumer_stream_rest.py lines 90-113 (_get_create_subscription),
\* stash/pittgoogle_consumer_python.py lines 47-84 (create_subscription, which
\* does not read the topic of a subscription that exists)
TouchSubscription(cls, sub, tpcs, tp) ==
    IF sub # "absent"
    THEN [err |-> "", subscription |-> sub,
          topic_path |-> IF cls = "PittGoogleConsumerPython" THEN tp ELSE sub,
          create_request |-> FALSE]
    ELSE CreateSubscription(cls, sub, tpcs, tp)

\* delete_subscription without the NotFound handler
DeleteSubscription_NotFoundEscapes(cls, sub) ==
    IF sub = "absent"
    THEN [err |-> "NotFound", subscription |-> sub]
    ELSE [err |-> "", subscription |-> "absent"]

\* consumer_stream_python.py lines 608-623 (NotFound is passed over),
\* consumer_stream_rest.py lines 189-199 (404 is reported, not raised),
\* stash/pittgoogle_consumer_python.py lines 86-95 (deletes only after
\* get_subscription has found the subscription)
DeleteSubscription(cls, sub) ==
    IF sub = "absent"
    THEN [err |-> "", subscription |-> sub]
    ELSE [err |-> "", subscription |-> "absent"]

\* __init__ (consumer_stream_python.py lines 83-120, consumer_stream_rest.py
\* lines 42-51, stash/pittgoogle_consumer_python.py lines 36-43): set
\* topic_path and make sure the subscription exists; an exception leaves no
\* consumer object
consumer_init ==
    LET tp0 == IF consumer = "PittGoogleConsumer" THEN "" ELSE ExpectedTopic
        r == TouchSubscription(consumer, subscription, topics, tp0)
    IN
    /\ drv = "new"
    /\ subscription' = r.subscription
    /\ topic_path' = r.topic_path
    /\ calls' = Append(calls, [op |-> "__init__", err |-> r.err,
                               create_request |-> r.create_request])
    /\ drv' = IF r.err = "" THEN "idle" ELSE "init_raised"
    /\ UNCHANGED <<alertvars, restvars, run, consumer, topics, callback_kwargs, num_saved,
                   queue, unfinished_tasks, database_list,
                   streaming_pull_future, msgs, delivered, outcome>>

\* touch_subscription called again on the consumer
touch_subscription ==
    LET r == TouchSubscription(consumer, subscription, topics, topic_path) IN
    /\ drv = "idle"
    /\ Len(calls) < MaxCalls
    /\ subscription' = r.subscription
    /\ topic_path' = r.topic_path
    /\ calls' = Append(calls, [op |-> "touch_subscription", err |-> r.err,
                               create_request |-> r.create_request])
    /\ UNCHANGED <<alertvars, restvars, run, consumer, topics, drv, callback_kwargs,
                   num_saved, queue, unfinished_tasks, database_list,
                   streaming_pull_future, msgs, delivered, outcome>>

delete_subscription ==
    LET r == DeleteSubscription(consumer, subscription) IN
    /\ drv = "idle"
    /\ Len(calls) < MaxCalls
    /\ subscription' = r.subscription
    /\ calls' = Append(calls, [op |-> "delete_subscription", err |-> r.err,
                               create_request |-> FALSE])
    /\ UNCHANGED <<alertvars, restvars, run, consumer, topics, topic_path, drv,
                   callback_kwargs, num_saved, queue, unfinished_tasks,
                   database_list, streaming_pull_future, msgs, delivered,
                   outcome>>

\* stream_alerts is a method of ConsumerStreamPython
SubStart == consumer = "ConsumerStreamPython" /\ Start

\* before construction: any class, any state of the service
SubInit ==
    /\ drv = "new"
    /\ consumer \in Classes
    /\ topics \in SUBSET Topics
    /\ subscription \in {"absent"} \cup topics
    /\ calls = <<>>
    /\ topic_path = ""
    /\ callback_kwargs =
          [send_data |-> "alert_dict", user_callback |-> FALSE,
           return_list |-> FALSE, has_send_metadata |-> FALSE,
           kw_max_results |-> "absent",
           flow_configs |-> clean_flow_configs([k \in FlowKeys |-> Absent])]
    /\ num_saved = 0
    /\ queue = <<>>
    /\ unfinished_tasks = 0
    /\ database_list = <<>>
    /\ streaming_pull_future = [state |-> "none", exc |-> ""]
    /\ msgs = [i \in M |-> NewMsg]
    /\ delivered = 0
    /\ outcome = [kind |-> "running", reason |-> "", err |-> "", list |-> <<>>]
    /\ NoAlertYet
    /\ NoRunYet
    /\ RestIdle

SubNext == consumer_init \/ touch_subscription \/ delete_subscription \/ SubStart
SubSpec == SubInit /\ [][SubNext]_vars

\* ------------------------------------------------------ _lighten_alert
\* A dict is the set of its <<key, value>> pairs; the value of field k is
\* <<"root", k>> at the root of the alert and <<g, k>> in the dict nested
\* under the key g.  An alert has its root fields and one nested dict.
FromRoot(ks) == {<<k, <<"root", k>>>> : k \in ks}
FromGroup(g, ks) == {<<k, <<g, k>>>> : k \in ks}

\* dict.update: the pairs of new replace those of old that have the same key
Update(old, new) ==
    {kv \in old : \A kw \in new : kw[1] # kv[1]} \cup new

\* _lighten_alert that copies the root of the alert and adds the candidate
\* fields, dropping nothing
lighten_alert_KeepsRoot(fields, alert) ==
    IF "top-level" \notin DOMAIN fields \/ "candidate" \notin DOMAIN fields
    THEN [err |-> "KeyError", dict |-> {}]
    ELSE IF ~(fields["top-level"] \subseteq alert.root)
    THEN [err |-> "KeyError", dict |-> {}]
    ELSE IF fields["candidate"] # {} /\
              (alert.group_name # "candidate"
                  \/ ~(fields["candidate"] \subseteq alert.nested))
    THEN [err |-> "KeyError", dict |-> {}]
    ELSE [err |-> "",
          dict |-> Update(FromRoot(alert.root),
                          FromGroup("candidate", fields["candidate"]))]

\* lines 414-419: save_fields["top-level"] is read from the root of the alert,
\* save_fields["candidate"] from alert_dict["candidate"]; a missing key, in
\* save_fields or in the alert, is a KeyError
lighten_alert(fields, alert) ==
    IF "top-level" \notin DOMAIN fields
    THEN [err |-> "KeyError", dict |-> {}]
    ELSE IF ~(fields["top-level"] \subseteq alert.root)
    THEN [err |-> "KeyError", dict |-> {}]
    ELSE IF "candidate" \notin DOMAIN fields
    THEN [err |-> "KeyError", dict |-> {}]
    ELSE IF fields["candidate"] # {} /\
              (alert.group_name # "candidate"
                  \/ ~(fields["candidate"] \subseteq alert.nested))
    THEN [err |-> "KeyError", dict |-> {}]
    ELSE [err |-> "",
          dict |-> Update(FromRoot(fields["top-level"]),
                          FromGroup("candidate", fields["candidate"]))]

\* the save_fields a consumer may be constructed with (_set_save_fields,
\* lines 391-400): the groups the code names, or groups of other names
GroupKeySets == {{"top-level", "candidate", "metadata"}, {"top", "group"}}
SaveFields == UNION {[D -> SUBSET Listed] : D \in GroupKeySets}

AlertDicts ==
    [root : SUBSET Names, group_name : {"candidate", "group"},
     nested : SUBSET Names]

LightenInit ==
    /\ topic_path = "ztf-loop"
    /\ drv = "idle"
    /\ callback_kwargs =
          [send_data |-> "alert_dict", user_callback |-> FALSE,
           return_list |-> FALSE, has_send_metadata |-> FALSE,
           kw_max_results |-> "absent",
           flow_configs |-> clean_flow_configs([k \in FlowKeys |-> Absent])]
    /\ num_saved = 0
    /\ queue = <<>>
    /\ unfinished_tasks = 0
    /\ database_list = <<>>
    /\ streaming_pull_future = [state |-> "none", exc |-> ""]
    /\ msgs = [i \in M |-> NewMsg]
    /\ delivered = 0
    /\ outcome = [kind |-> "running", reason |-> "", err |-> "", list |-> <<>>]
    /\ SubscriptionReady
    /\ save_fields \in SaveFields
    /\ alert_dict \in AlertDicts
    /\ alert_lite = NotYet
    /\ message = NoMessage
    /\ metadata_dict = NotYet
    /\ NoRunYet
    /\ RestIdle

\* lines 375-376: the alert of a ztf-loop topic is lightened
Lighten ==
    /\ topic_path = "ztf-loop"
    /\ alert_lite = NotYet
    /\ alert_lite' = lighten_alert(save_fields, alert_dict)
    /\ UNCHANGED <<subvars, restvars, run, message, metadata_dict, save_fields,
                   alert_dict, topic_path, drv,
                   callback_kwargs, num_saved, queue, unfinished_tasks,
                   database_list, streaming_pull_future, msgs, delivered,
                   outcome>>

LightenSpec == LightenInit /\ [][Lighten]_vars

\* --------------------------------------------------- _extract_metadata
\* str(x), line 409
Str(x) == Value("str", x.of)

\* the keys of save_fields["metadata"]; the keys of message.attributes, which
\* the publisher chooses
MetaKeys == {"message_id", "publish_time", "kafka.timestamp"}
AttrKeys == {"message_id", "kafka.timestamp", "kafka.topic"}
AttrValues(k) == {Value("str", <<"attribute", k, v>>) : v \in {"u", "v"}}

\* message.attributes: a dict of strings, as the set of its <<key, value>> pairs
Attributes ==
    UNION {{{<<k, f[k]>> : k \in K} :
               f \in {g \in [K -> UNION {AttrValues(k) : k \in K}] :
                         \A k \in K : g[k] \in AttrValues(k)}} :
           K \in SUBSET AttrKeys}

\* message_id is a str, publish_time a datetime
Messages ==
    [message_id : {Value("str", <<"message", "message_id", "">>)},
     publish_time : {Value("datetime", <<"message", "publish_time", "">>)},
     attributes : Attributes]

\* lines 402-412: the dict display puts **attributes last, so an attribute
\* replaces a message_id or publish_time entry of the same key
extract_metadata(fields, msg) ==
    LET metadata == Update({<<"message_id", msg.message_id>>,
                            <<"publish_time", Str(msg.publish_time)>>},
                           msg.attributes)
    IN  IF "metadata" \notin DOMAIN fields
        THEN [err |-> "KeyError", dict |-> {}]
        ELSE [err |-> "",
              dict |-> {kv \in metadata : kv[1] \in fields["metadata"]}]

MetaInit ==
    /\ topic_path = "ztf-loop"
    /\ drv = "idle"
    /\ callback_kwargs =
          [send_data |-> "alert_dict", user_callback |-> FALSE,
           return_list |-> FALSE, has_send_metadata |-> FALSE,
           kw_max_results |-> "absent",
           flow_configs |-> clean_flow_configs([k \in FlowKeys |-> Absent])]
    /\ num_saved = 0
    /\ queue = <<>>
    /\ unfinished_tasks = 0
    /\ database_list = <<>>
    /\ streaming_pull_future = [state |-> "none", exc |-> ""]
    /\ msgs = [i \in M |-> NewMsg]
    /\ delivered = 0
    /\ outcome = [kind |-> "running", reason |-> "", err |-> "", list |-> <<>>]
    /\ SubscriptionReady
    /\ \E W \in SUBSET MetaKeys :
          save_fields = [g \in {"top-level", "candidate", "metadata"} |->
                            IF g = "metadata" THEN W ELSE {}]
    /\ alert_dict = NoAlert
    /\ alert_lite = NotYet
    /\ message \in Messages
    /\ metadata_dict = NotYet
    /\ NoRunYet
    /\ RestIdle

\* lines 379-380: metadata_dict = self._extract_metadata(message)
ExtractMetadata ==
    /\ metadata_dict = NotYet
    /\ metadata_dict' = extract_metadata(save_fields, message)
    /\ UNCHANGED <<subvars, restvars, run, save_fields, alert_dict, alert_lite,
                   message, topic_path, drv, callback_kwargs, num_saved, queue,
                   unfinished_tasks, database_list, streaming_pull_future,
                   msgs, delivered, outcome>>

MetaSpec == MetaInit /\ [][ExtractMetadata]_vars

\* -------------------------------------------------------- REST broker
\* broker_stream_rest.py line 67
max_tries == 5

\* how the processing of one message of a pull response ends
\* (consumer_stream_rest.py lines 155-164): b64avro_to_dict or _lighten_alert
\* raises, the callback raises, the callback returns None, or the alert is kept
RestOutcomes == {"DecodeError", "CallbackError", "None", "alert"}

Event(op, ids) == [op |-> op, ids |-> ids]

RECURSIVE SeqsUpTo(_, _)
\* the sequences over S of length at most n
SeqsUpTo(S, n) ==
    IF n = 0 THEN {<<>>}
    ELSE LET shorter == SeqsUpTo(S, n - 1)
         IN  shorter \cup {Append(q, x) : q \in {t \in shorter : Len(t) = n - 1},
                                           x \in S}

\* the responses the service may give to pull number t that asks for n
\* messages: an error status, a body without receivedMessages (no message was
\* available), or up to n messages (one more, for a service that does not
\* keep to maxMessages)
Responses(t, n) ==
    {NoResponse, [ok |-> TRUE, key |-> FALSE, messages |-> <<>>]}
    \cup {[ok |-> TRUE, key |-> TRUE,
           messages |-> [k \in 1..Len(q) |->
                            [ackId |-> <<t, k>>, outcome |-> q[k]]]] :
          q \in SeqsUpTo(RestOutcomes, n + 1)}

RECURSIVE unpack_loop(_, _, _)
\* consumer_stream_rest.py lines 154-165: the for loop, from message k on;
\* acc holds alerts, ack_ids and the events so far.  An exception leaves the
\* loop and the method.
unpack_loop(messages, k, acc) ==
    IF k > Len(messages) THEN acc
    ELSE LET msg == messages[k]
             seen == [acc EXCEPT
                         !.events = Append(@, Event("process", <<msg.ackId>>))]
         IN  IF msg.outcome \in {"DecodeError", "CallbackError"}
             THEN [seen EXCEPT !.err = msg.outcome]
             ELSE unpack_loop(messages, k + 1,
                      [seen EXCEPT
                          !.alerts = IF msg.outcome = "alert" THEN @ + 1 ELSE @,
                          !.ack_ids = Append(@, msg.ackId)])

\* unpack_and_ack_messages that acknowledges only the alerts it returns
unpack_and_ack_messages_AcksKept(response) ==
    IF ~response.key
    THEN [err |-> "KeyError", alerts |-> 0, ack_ids |-> <<>>, events |-> <<>>]
    ELSE LET kept ==
                 SelectSeq(response.messages, LAMBDA m : m.outcome # "None")
             r == unpack_loop(kept, 1,
                     [err |-> "", alerts |-> 0, ack_ids |-> <<>>,
                      events |-> <<>>])
         IN  IF r.err # "" THEN r
             ELSE [r EXCEPT !.events = Append(@, Event("ack", r.ack_ids))]

\* consumer_stream_rest.py lines 147-170 and 183-186: the messages of the
\* response are processed in order, then one acknowledge request carries all
\* their ackIds; response.json()["receivedMessages"] is a KeyError when the
\* body has no such key
unpack_and_ack_messages(response) ==
    IF ~response.key
    THEN [err |-> "KeyError", alerts |-> 0, ack_ids |-> <<>>, events |-> <<>>]
    ELSE LET r == unpack_loop(response.messages, 1,
                     [err |-> "", alerts |-> 0, ack_ids |-> <<>>,
                      events |-> <<>>])
         IN  IF r.err # "" THEN r
             ELSE [r EXCEPT !.events = Append(@, Event("ack", r.ack_ids))]

\* broker_stream_rest.py line 68
LoopTest(collected, wanted, n) == collected < wanted /\ n < max_tries

\* maxMessages is always the whole of max_results
MaxMessages_Whole(wanted, collected) == wanted

\* broker_stream_rest.py line 72
MaxMessages(wanted, collected) == wanted - collected

\* broker_stream_rest.py lines 63-67: fetch_alerts is called with the form's
\* max_results, an integer from 1
rest_fetch_alerts ==
    /\ rest_pc = "idle"
    /\ \E wanted \in 1..MaxRestResults : rest_max_results' = wanted
    /\ rest_pc' = "loop"
    /\ tries' = 0
    /\ alerts' = 0
    /\ UNCHANGED <<max_messages, received, events, oversized>>
    /\ UNCHANGED <<subvars, alertvars, run, topic_path, drv, callback_kwargs,
                   num_saved, queue, unfinished_tasks, database_list,
                   streaming_pull_future, msgs, delivered, outcome>>

\* broker_stream_rest.py lines 68-75 and 83-87: the loop test, then either
\* the return or the next pull request and raise_for_status
request_alerts ==
    /\ rest_pc = "loop"
    /\ IF LoopTest(alerts, rest_max_results, tries)
       THEN /\ tries' = tries + 1
            /\ max_messages' = MaxMessages(rest_max_results, alerts)
            /\ \E response \in Responses(tries + 1, max_messages') :
                  /\ received' = response
                  /\ rest_pc' = IF response.ok THEN "pulled" ELSE "raised"
                  /\ oversized' =
                        (oversized \/ Len(response.messages) > max_messages')
            /\ events' = <<Event("pull", <<>>)>>
       ELSE /\ rest_pc' = "returned"
            /\ UNCHANGED <<tries, max_messages, received, events, oversized>>
    /\ UNCHANGED <<rest_max_results, alerts>>
    /\ UNCHANGED <<subvars, alertvars, run, topic_path, drv, callback_kwargs,
                   num_saved, queue, unfinished_tasks, database_list,
                   streaming_pull_future, msgs, delivered, outcome>>

\* broker_stream_rest.py lines 88-94 and 73, consumer_stream_rest.py lines
\* 147-170 and 183-187: unpack and acknowledge the response; the acknowledge
\* request succeeds or raise_for_status raises
unpack_and_ack ==
    LET r == unpack_and_ack_messages(received) IN
    /\ rest_pc = "pulled"
    /\ events' = events \o r.events
    /\ \E acknowledged \in BOOLEAN :
          IF r.err = "" /\ acknowledged
          THEN /\ alerts' = alerts + r.alerts
               /\ rest_pc' = "loop"
          ELSE /\ rest_pc' = "raised"
               /\ UNCHANGED alerts
    /\ UNCHANGED <<rest_max_results, tries, max_messages, received, oversized>>
    /\ UNCHANGED <<subvars, alertvars, run, topic_path, drv, callback_kwargs,
                   num_saved, queue, unfinished_tasks, database_list,
                   streaming_pull_future, msgs, delivered, outcome>>

RestNext == rest_fetch_alerts \/ request_alerts \/ unpack_and_ack

\* every HTTP request gets its response
RestSpec == Init /\ [][RestNext]_vars /\ WF_vars(request_alerts \/ unpack_and_ack)

\* ------------------------------------------------------------ claims
\* stream_alerts has validated its flow_configs and started the pull
Running == streaming_pull_future.state # "none"
Bounded == Running /\ ~IsNone(flow_configs.max_results)
TimeoutSet == Running /\ ~IsNone(flow_configs.timeout)
Ended == drv \in {"returned", "raised"}
AckedCounted == {i \in M : msgs[i].disp = "acked" /\ msgs[i].count = 1}
Queued(i) == \E k \in 1..Len(queue) : queue[k].m = i
Collected(i) == \E k \in 1..Len(database_list) : database_list[k].m = i

\* C1: in a run with max_results = N, the number of messages acknowledged
\* with a non-None result never exceeds N.
C1_AckedAtMostMaxResults ==
    Bounded => Cardinality(AckedCounted) <= flow_configs.max_results.v

\* C2: in a max_results-bounded run no message is acknowledged before the
\* driver has taken its increment from the queue and added it to num_saved.
C2_AckOnlyAfterTaken ==
    Bounded => \A i \in M : msgs[i].disp = "acked" => msgs[i].taken

\* C3: with max_results = N, a timeout, and more than N counting messages
\* queued (no user_callback, data passed on undecoded), a run of stream_alerts
\* with return_list=True that counted up to max_results returns exactly N
\* results, and every message after the N-th stays unacknowledged.
C3_ReturnsExactlyMaxResults ==
    (/\ Ended
     /\ Bounded /\ TimeoutSet
     /\ outcome.reason = "max_results"
     /\ callback_kwargs.return_list
     /\ ~callback_kwargs.user_callback
     /\ callback_kwargs.send_data \in {"alert_bytes", "full_msg"}
     /\ NumMsgs > flow_configs.max_results.v)
    => /\ drv = "returned"
       /\ Len(outcome.list) = flow_configs.max_results.v
       /\ \A i \in M : i > flow_configs.max_results.v => msgs[i].disp # "acked"

\* C4: a run whose loop ended on the idle timeout stops the pull and returns
\* normally; it does not end with an error.
C4_TimeoutReturnsNormally ==
    outcome.reason = "timeout" =>
        /\ outcome.err = ""
        /\ Ended => drv = "returned"

EmptyRun ==
    /\ drv = "returned"
    /\ outcome.err = ""
    /\ callback_kwargs.return_list => outcome.kind = "list" /\ outcome.list = <<>>

\* C5: with max_results None, a timeout, and no message ever delivered,
\* stream_alerts eventually returns, with an empty list when return_list is
\* True, and raises no error.
C5_IdleRunReturnsEmpty ==
    (drv = "get" /\ IsNone(flow_configs.max_results) /\ TimeoutSet) ~> EmptyRun

C5_Witness ==
    /\ EmptyRun /\ callback_kwargs.return_list
    /\ delivered = 0
    /\ IsNone(flow_configs.max_results)
    /\ outcome.reason = "timeout"

\* C6: with no user_callback, a message that unpacks successfully is counted
\* with an increment of 1 and is acknowledged, never nacked: once its callback
\* has ended it is acked.
C6_UnpackedIsAcked ==
    \A i \in M :
        (Running /\ ~callback_kwargs.user_callback /\ msgs[i].unpack = "ok")
        => /\ msgs[i].count = 1
           /\ msgs[i].disp # "nacked"
           /\ msgs[i].pc = "done" => msgs[i].disp = "acked"

\* C7: in a max_results-bounded run every message whose increment the driver
\* added to num_saved is acknowledged: once its callback has ended, it is acked.
C7_CountedIsAcked ==
    Bounded =>
        \A i \in M : (msgs[i].taken /\ msgs[i].pc = "done") => msgs[i].disp = "acked"

\* what callback has done for a message it nacks and returns on: nothing is
\* put or collected, the driver has nothing to take, no exception leaves it
NackedAndDropped(i) ==
    /\ msgs[i].pc = "done" /\ msgs[i].disp = "nacked"
    /\ msgs[i].count = -1 /\ ~msgs[i].taken /\ ~msgs[i].escaped
    /\ ~Queued(i) /\ ~Collected(i)

UnpackErrors == {"DecodeError", "KeyError"}

\* C8: a delivered message whose unpacking raises, because the payload cannot
\* be decoded or the projection asks for a missing field, is nacked and never
\* acknowledged, nothing is put on the queue for it (num_saved does not count
\* it), and no exception reaches the pull, which goes on to later messages.
C8_UnpackErrorNacks ==
    \A i \in M : msgs[i].unpack \in UnpackErrors => NackedAndDropped(i)

C8_Witness ==
    \E i, j \in M :
        /\ i < j
        /\ msgs[i].unpack \in UnpackErrors /\ NackedAndDropped(i)
        /\ msgs[j].disp = "acked"

\* C9: if the user_callback raises, the message is nacked, it is neither
\* counted nor collected, nothing is put on the queue, the exception does not
\* leave the callback, and the pull goes on with the next message.
C9_UserRaiseNacks ==
    \A i \in M : msgs[i].user = "raise" => NackedAndDropped(i)

C9_Witness ==
    \E i, j \in M :
        /\ i < j
        /\ msgs[i].user = "raise" /\ NackedAndDropped(i)
        /\ msgs[j].disp = "acked"

\* C10: if the user_callback returns ack = False, the message is nacked and
\* the callback returns at once: no increment is put, num_saved and the
\* collected results do not change, and the message is not acknowledged.
C10_UserNackNacks ==
    \A i \in M :
        msgs[i].user = "nack" =>
            /\ msgs[i].pc = "done" /\ msgs[i].disp = "nacked"
            /\ msgs[i].count = -1 /\ ~msgs[i].taken
            /\ ~Queued(i) /\ ~Collected(i)
            /\ num_saved <= Cardinality({j \in M \ {i} : msgs[j].taken})

C10_Witness ==
    \E i \in M :
        /\ msgs[i].user = "nack" /\ msgs[i].disp = "nacked"
        /\ callback_kwargs.return_list /\ Ended

UserAcks == {"ack_None", "ack_absent", "ack_result"}
CollectedAs(i, r) ==
    \E k \in 1..Len(database_list) : database_list[k] = [m |-> i, r |-> r]

\* what lines 326-341 do with the response's result: the increment and the
\* value appended to database_list
CountAndCollect(i) ==
    /\ msgs[i].user = "ack_None" => msgs[i].count = 0 /\ ~Collected(i)
    /\ msgs[i].user = "ack_absent" =>
          /\ msgs[i].count = 1
          /\ callback_kwargs.return_list => CollectedAs(i, "msg_data")
    /\ msgs[i].user = "ack_result" =>
          /\ msgs[i].count = 1
          /\ callback_kwargs.return_list => CollectedAs(i, "user_result")

CountAndCollectHolds ==
    \A i \in M : msgs[i].user \in UserAcks => CountAndCollect(i)

\* C11: for a user_callback response with ack = True: a result that is
\* explicitly None gives an acknowledged message, an increment of 0 and nothing
\* appended; an absent result key gives an increment of 1 and the message data
\* appended (when return_list); any other result gives an increment of 1 and
\* that result appended (when return_list).
C11_ResultDecidesCount ==
    \A i \in M :
        (msgs[i].user \in UserAcks /\ msgs[i].pc = "done") =>
            /\ CountAndCollect(i)
            /\ msgs[i].user = "ack_None" => msgs[i].disp = "acked"

\* the messages whose callback has been entered and has not returned
InCallback == {i \in M : msgs[i].pc \in {"cb", "put", "join", "ack"}}

\* C12: at every instant at most one message's callback is executing, for any
\* max_backlog >= 1.
C12_OneCallbackAtATime == Cardinality(InCallback) <= 1

\* C13: when _stop has returned (stream_alerts has returned or re-raised),
\* every message that was delivered to callback has been acked or nacked.
C13_StoppedMeansDisposed ==
    (Running /\ Ended) =>
        \A i \in M : msgs[i].pc # "sub" => msgs[i].disp \in {"acked", "nacked"}

SecondStopRaises ==
    \/ drv = "stop_again_raised"
    \/ /\ drv = "except_result"
       /\ streaming_pull_future.state = "done"
       /\ streaming_pull_future.exc # ""

\* C15: stopping is idempotent: _stop called on a pull that has already been
\* stopped changes no state and raises no error.
C15_StopAgainIsNoOp == ~SecondStopRaises

\* the driver takes an increment off the queue (lines 242-246)
DriverTakes == drv = "get" /\ queue # <<>> /\ queue' = Tail(queue)

\* C16: once a run is under way, num_saved and the collected result list
\* change only in a step of the driver that takes an increment off the queue;
\* no step of callback writes either of them.
C16_OnlyDriverWritesRunState ==
    [][(Running /\ (num_saved' # num_saved \/ database_list' # database_list))
          => DriverTakes]_vars

\* C17: the queue between callback and driver never holds more than one
\* increment that the driver has not yet taken, in any run.
C17_QueueHoldsAtMostOne == Len(queue) <= 1

\* the number of increments callback has put for message i
PutsOf(i) ==
    Cardinality({k \in 1..Len(queue) : queue[k].m = i})
        + (IF msgs[i].taken THEN 1 ELSE 0)

\* C18: after deciding a message's disposition callback puts exactly one
\* increment and then, when max_results is set, waits until the driver has
\* taken it before it acks; when max_results is None it goes on to ack without
\* waiting.  It blocks nowhere else.
C18_PutThenWaitIfBounded ==
    \A i \in M :
        (Running /\ msgs[i].count >= 0 /\ msgs[i].pc \in {"join", "ack", "done"})
        => /\ PutsOf(i) = 1
           /\ msgs[i].disp # "nacked"
           /\ IF IsNone(flow_configs.max_results)
              THEN msgs[i].pc # "join"
              ELSE msgs[i].pc \in {"ack", "done"} => msgs[i].taken

\* C19: messages are acknowledged in the order they were delivered to
\* callback: no message is acked after a message delivered later than it.
C19_AcksInDeliveryOrder ==
    [][\A i, j \in M :
          (i < j /\ msgs[j].disp = "acked" /\ msgs'[i].disp = "acked")
              => msgs[i].disp = "acked"]_vars

\* C20: for a positive integer max_results and a count that grows from 0 by
\* increments of 0 or 1, the stop test of line 247 answers as
\* num_saved >= max_results does: the driver stays in its loop while
\* num_saved < max_results and leaves it at the first receipt that makes
\* num_saved = max_results.
C20_StopTestIsThreshold ==
    LET N == flow_configs.max_results.v IN
    /\ \A n \in 0..N :
          StopTest(flow_configs.max_results, n)
             = IF n >= N THEN "break" ELSE "continue"
    /\ drv = "get" => num_saved < N
    /\ drv # "get" =>
          /\ drv = "cancel" /\ outcome.reason = "max_results"
          /\ num_saved = N

C20_Witness ==
    /\ drv = "cancel" /\ num_saved = flow_configs.max_results.v
    /\ flow_configs.max_results.v = MaxStop - 2

\* C21: when max_results is None the count never stops the run: the driver
\* goes on receiving increments, a receipt raises no error, and the loop is
\* left only on the idle timeout.
C21_UnboundedRunsUntilTimeout ==
    (Running /\ IsNone(flow_configs.max_results)) =>
        /\ outcome.err # "TypeError"
        /\ outcome.reason \in {"", "timeout"}

\* a value under some key is neither None nor a positive integer
HasInvalidValue(fc) ==
    /\ fc # NoneV
    /\ \E key \in FlowKeys :
          /\ fc[key] # Absent /\ ~IsNone(fc[key])
          /\ ~(fc[key].t = "int" /\ fc[key].v > 0)

NothingPulled ==
    /\ streaming_pull_future.state = "none"
    /\ delivered = 0
    /\ \A i \in M : msgs[i] = NewMsg

\* C22: stream_alerts raises ValueError when max_results, timeout or
\* max_backlog is given a value that is neither None nor a positive integer,
\* and it raises before the pull is started: no message is delivered, acked
\* or nacked.
C22_InvalidValueRaises ==
    /\ [][\A args \in ValidationArgs :
             (stream_alerts(args) /\ HasInvalidValue(args.flow_configs))
                => (drv' = "raised" /\ outcome'.err = "ValueError")]_vars
    /\ [](outcome.err = "ValueError" => NothingPulled)

C22_Witness ==
    /\ drv = "raised" /\ outcome.err = "ValueError"
    /\ outcome.reason = "error"
    /\ NothingPulled

\* C23: validation fails when max_results and timeout are both None: a pull
\* with no stopping condition is never started.
C23_NeedsStoppingCondition ==
    Running =>
        ~(IsNone(flow_configs.max_results) /\ IsNone(flow_configs.timeout))

\* the value given under key, or the documented default when the dict is
\* None or lacks the key
SuppliedOr(fc, key, default) ==
    IF fc = NoneV THEN default
    ELSE IF fc[key] = Absent THEN default
    ELSE fc[key]

\* max_backlog as documented: None and absent give 1000, and the value is
\* lowered to max_results when max_results is set and smaller
ExpectedBacklog(fc) ==
    LET mr == SuppliedOr(fc, "max_results", IntV(DefaultMaxResults))
        given == SuppliedOr(fc, "max_backlog", IntV(DefaultMaxBacklog))
        mb == IF IsNone(given) THEN IntV(DefaultMaxBacklog) ELSE given
    IN  IF ~IsNone(mr) /\ mb.v > mr.v THEN mr ELSE mb

\* C24: after validation max_backlog is a positive integer (None becomes
\* 1000) and, when max_results is set, max_backlog <= max_results: a larger
\* value is lowered to max_results, a smaller one is left as given.  It is the
\* bound the pull's flow control applies to delivered, unsettled messages.
C24_BacklogClamped ==
    /\ [][\A args \in ValidationArgs :
             (stream_alerts(args) /\ streaming_pull_future'.state = "running")
                => callback_kwargs'.flow_configs.max_backlog
                      = ExpectedBacklog(args.flow_configs)]_vars
    /\ [](Running =>
             /\ flow_configs.max_backlog.t = "int"
             /\ flow_configs.max_backlog.v > 0
             /\ ~IsNone(flow_configs.max_results) =>
                   flow_configs.max_backlog.v <= flow_configs.max_results.v
             /\ Cardinality(Outstanding) <= flow_configs.max_backlog.v)

C24_Witness ==
    /\ Running
    /\ flow_configs.max_results = IntV(1)
    /\ flow_configs.max_backlog = IntV(1)
    /\ Cardinality(Outstanding) = 1
    /\ delivered = 1

\* C25: validation fills in the defaults: called without flow_configs (None)
\* or with a dict that lacks a key, stream_alerts runs with max_results = 10,
\* timeout = 30 and max_backlog = min(1000, max_results) for what is missing,
\* and keeps every valid value that is supplied.
C25_DefaultsFilledIn ==
    [][\A args \in ValidationArgs :
          (stream_alerts(args) /\ ~HasInvalidValue(args.flow_configs))
             => /\ streaming_pull_future'.state = "running"
                /\ callback_kwargs'.flow_configs.max_results
                      = SuppliedOr(args.flow_configs, "max_results",
                                   IntV(DefaultMaxResults))
                /\ callback_kwargs'.flow_configs.timeout
                      = SuppliedOr(args.flow_configs, "timeout",
                                   IntV(DefaultTimeout))
                /\ callback_kwargs'.flow_configs.max_backlog
                      = ExpectedBacklog(args.flow_configs)]_vars

LastCall == calls[Len(calls)]
TouchOps == {"__init__", "touch_subscription"}
\* this step is a call of op
Calls(op) == Len(calls') = Len(calls) + 1 /\ calls'[Len(calls')].op = op
\* the last call made the subscription exist and it has not been deleted since
Touched == calls # <<>> /\ LastCall.op \in TouchOps /\ LastCall.err = ""

\* C26: touch_subscription is idempotent: called again for a subscription
\* that a first call has found or created, it raises no error, sends no
\* create_subscription request, and leaves the same binding: the subscription
\* exists, bound as before, with topic_path as before.
C26_TouchIsIdempotent ==
    [][(Touched /\ Calls("touch_subscription")) =>
          /\ calls'[Len(calls')].err = ""
          /\ ~calls'[Len(calls')].create_request
          /\ subscription' = subscription /\ subscription' # "absent"
          /\ topic_path' = topic_path]_vars

C26_Witness ==
    /\ Len(calls) = 2
    /\ calls[1].op = "__init__" /\ calls[1].create_request /\ calls[1].err = ""
    /\ calls[2].op = "touch_subscription" /\ calls[2].err = ""
    /\ subscription = ExpectedTopic /\ topic_path = ExpectedTopic

\* C27: when the subscription exists but is bound to another topic than the
\* expected one, touch_subscription raises no error, creates nothing, and sets
\* topic_path to the topic the subscription is bound to; after every
\* successful touch_subscription topic_path is the subscription's topic.
C27_TopicPathFollowsBinding ==
    /\ [][(/\ consumer = "ConsumerStreamPython"
           /\ subscription \notin {"absent", ExpectedTopic}
           /\ (Calls("__init__") \/ Calls("touch_subscription")))
          => /\ calls'[Len(calls')].err = ""
             /\ ~calls'[Len(calls')].create_request
             /\ subscription' = subscription
             /\ topic_path' = subscription]_vars
    /\ []((consumer = "ConsumerStreamPython" /\ Touched)
             => (subscription # "absent" /\ topic_path = subscription))

C27_Witness ==
    /\ consumer = "ConsumerStreamPython"
    /\ Len(calls) = 1 /\ LastCall.op = "__init__"
    /\ LastCall.err = "" /\ ~LastCall.create_request
    /\ subscription = "other" /\ topic_path = "other"
    /\ drv = "idle"

\* C28: when the subscription does not exist and the expected topic does not
\* exist upstream, constructing the consumer fails with ValueError, no
\* subscription exists afterwards, and there is no consumer to start a pull on.
C28_MissingTopicFailsInit ==
    /\ [][(drv = "new" /\ subscription = "absent" /\ ExpectedTopic \notin topics
             /\ Calls("__init__"))
          => /\ drv' = "init_raised"
             /\ calls'[Len(calls')].err = "ValueError"
             /\ subscription' = "absent"]_vars
    /\ [][drv = "init_raised" => drv' = "init_raised"]_vars
    /\ [](drv = "init_raised" => ~Running /\ delivered = 0)

C28_Witness ==
    /\ drv = "init_raised"
    /\ LastCall.op = "__init__" /\ LastCall.err = "ValueError"
    /\ subscription = "absent" /\ ExpectedTopic \notin topics

\* C29: delete_subscription is idempotent: on a subscription that does not
\* exist it changes nothing and raises no error, and after any number of
\* delete_subscription calls the subscription is absent.
C29_DeleteIsIdempotent ==
    /\ [][Calls("delete_subscription") =>
             /\ calls'[Len(calls')].err = ""
             /\ subscription' = "absent"
             /\ topic_path' = topic_path /\ topics' = topics]_vars
    /\ []((calls # <<>> /\ LastCall.op = "delete_subscription")
             => subscription = "absent")

C29_Witness ==
    /\ Len(calls) = 3
    /\ calls[2].op = "delete_subscription" /\ calls[2].err = ""
    /\ calls[3].op = "delete_subscription" /\ calls[3].err = ""
    /\ subscription = "absent"

\* the top-level group of a field spec and its other groups
TopGroup(fields) == IF "top-level" \in DOMAIN fields THEN "top-level" ELSE "top"
OtherGroups(fields) == DOMAIN fields \ {TopGroup(fields)}

\* the alert holds every field the spec asks for, where the spec asks for it
HasRequested(fields, alert) ==
    /\ fields[TopGroup(fields)] \subseteq alert.root
    /\ \A g \in OtherGroups(fields) :
          fields[g] # {} => (alert.group_name = g /\ fields[g] \subseteq alert.nested)

Lightened == alert_lite # NotYet

\* C30: projection keeps exactly the listed fields for any field spec
\* {groupName: [fieldName, ...]}: the top-level group selects root fields,
\* every other group selects fields nested under the source group of the same
\* name, everything else is dropped; {"top": ["a"], "group": ["b"]} applied to
\* {"a":1, "x":2, "group": {"b":3, "c":4}} gives exactly {"a":1, "b":3}.
C30_ProjectionAnyGroups ==
    (Lightened /\ HasRequested(save_fields, alert_dict)) =>
        /\ alert_lite.err = ""
        /\ alert_lite.dict =
              Update(FromRoot(save_fields[TopGroup(save_fields)]),
                     UNION {FromGroup(g, save_fields[g]) :
                               g \in OtherGroups(save_fields)})

\* C30 as amended: with the groups named "top-level" and "candidate", and an
\* alert that holds the listed fields, the result has exactly the listed
\* names as keys; a name listed under "candidate" has the value of
\* alert["candidate"][name], any other the value of alert[name].
C30_ProjectionTopLevelCandidate ==
    (/\ Lightened
     /\ {"top-level", "candidate"} \subseteq DOMAIN save_fields
     /\ save_fields["top-level"] \subseteq alert_dict.root
     /\ save_fields["candidate"] # {} =>
           /\ alert_dict.group_name = "candidate"
           /\ save_fields["candidate"] \subseteq alert_dict.nested)
    => /\ alert_lite.err = ""
       /\ {kv[1] : kv \in alert_lite.dict}
             = save_fields["top-level"] \cup save_fields["candidate"]
       /\ \A kv \in alert_lite.dict :
             kv[2] = IF kv[1] \in save_fields["candidate"]
                     THEN <<"candidate", kv[1]>> ELSE <<"root", kv[1]>>
       /\ Cardinality(alert_lite.dict)
             = Cardinality(save_fields["top-level"] \cup save_fields["candidate"])

C30_Witness ==
    /\ "top-level" \in DOMAIN save_fields
    /\ save_fields["top-level"] = {"a"} /\ save_fields["candidate"] = {"b"}
    /\ alert_dict = [root |-> {"a", "x"}, group_name |-> "candidate",
                     nested |-> {"b", "c"}]
    /\ alert_lite = [err |-> "",
                     dict |-> {<<"a", <<"root", "a">>>>,
                               <<"b", <<"candidate", "b">>>>}]

Extracted == metadata_dict # NotYet
MetadataKeys == {kv[1] : kv \in metadata_dict.dict}
AttributeKeys == {kv[1] : kv \in message.attributes}

\* C31: _extract_metadata returns only keys of the metadata whitelist, drawn
\* from message_id, publish_time and the attributes, every value a string;
\* a whitelisted message_id or publish_time entry carries the message's own id
\* or publish time, whatever the attributes are.
C31_MetadataWhitelisted ==
    Extracted =>
        /\ metadata_dict.err = ""
        /\ MetadataKeys \subseteq save_fields["metadata"]
        /\ MetadataKeys \subseteq {"message_id", "publish_time"} \cup AttributeKeys
        /\ \A kv \in metadata_dict.dict : kv[2].type = "str"
        /\ "message_id" \in save_fields["metadata"] =>
              <<"message_id", message.message_id>> \in metadata_dict.dict
        /\ "publish_time" \in save_fields["metadata"] =>
              <<"publish_time", Str(message.publish_time)>> \in metadata_dict.dict

\* C32: num_saved starts at 0 in every run, never decreases within a run,
\* changes only when the driver receives an increment and then by that
\* increment, which is 0 or 1, and never exceeds max_results in a
\* max_results-bounded run.
C32_NumSavedCountsUp ==
    /\ [][run' # run => num_saved' = 0]_vars
    /\ [][(run' = run /\ num_saved' # num_saved) =>
             /\ drv = "get" /\ queue # <<>> /\ queue' = Tail(queue)
             /\ num_saved' = num_saved + 1]_vars
    /\ [][(drv = "get" /\ queue # <<>> /\ queue' = Tail(queue)) =>
             /\ Head(queue).count \in {0, 1}
             /\ num_saved' = num_saved + Head(queue).count]_vars
    /\ [](Bounded => num_saved <= flow_configs.max_results.v)

C32_Witness ==
    /\ Bounded
    /\ num_saved = flow_configs.max_results.v
    /\ \E i \in M : msgs[i].taken /\ msgs[i].count = 0
    /\ \E i \in M : msgs[i].taken /\ msgs[i].count = 1

ReturnedList == drv = "returned" /\ outcome.kind = "list"

\* C33: when stream_alerts(return_list=True) returns on a freshly constructed
\* consumer, the returned list is as long as the driver's final num_saved, and
\* every returned result belongs to a message whose increment of 1 the driver
\* received.
C33_ListLengthIsNumSaved ==
    (ReturnedList /\ run = 1) =>
        /\ Len(outcome.list) = num_saved
        /\ \A k \in 1..Len(outcome.list) :
              /\ msgs[outcome.list[k].m].taken
              /\ msgs[outcome.list[k].m].count = 1

\* C34: a call of stream_alerts(return_list=True) returns only results that
\* were collected during that call, also when it is the second call on the
\* same consumer.
C34_ReturnsOwnResultsOnly ==
    ReturnedList =>
        \A k \in 1..Len(outcome.list) : msgs[outcome.list[k].m].run = run

\* stream_alerts is not running: it has returned or raised, or was not called
BetweenRuns == drv \in {"returned", "raised", "idle"} /\ run >= 1

\* C35: when stream_alerts has returned the handshake queue is empty, and
\* stays so until the next call, so the driver of a later run never takes an
\* increment put for a message of an earlier run.
C35_QueueEmptyBetweenRuns ==
    /\ [](BetweenRuns => queue = <<>>)
    /\ [][(drv = "get" /\ queue # <<>> /\ queue' = Tail(queue))
             => msgs[Head(queue).m].run = run]_vars

\* C36: every invocation of the callback eventually returns; the worker is
\* never left blocked forever in queue.join(), also when it puts its increment
\* after the driver has left its receive loop.
C36_CallbackReturns ==
    \A i \in M : (i \in InCallback) ~> (msgs[i].pc = "done")

\* C37: for each delivery the callback calls at most one of message.ack() and
\* message.nack(), and at most once, whatever the user_callback does; a
\* message the callback has nacked is not acked, and a callback that an
\* exception has left has called neither.
C37_AckOrNackOnce ==
    \A i \in M :
        /\ msgs[i].ack_calls + msgs[i].nack_calls <= 1
        /\ msgs[i].ack_calls = 1 => msgs[i].disp = "acked"
        /\ msgs[i].nack_calls = 1 => msgs[i].disp = "nacked"
        /\ msgs[i].escaped => msgs[i].ack_calls + msgs[i].nack_calls = 0
        /\ msgs[i].pc = "done" =>
              (msgs[i].escaped \/ msgs[i].ack_calls + msgs[i].nack_calls = 1)

C37_Witness ==
    /\ callback_kwargs.user_callback
    /\ \E i \in M : /\ msgs[i].pc = "done" /\ msgs[i].user = "raise"
                    /\ msgs[i].nack_calls = 1
    /\ \E i \in M : /\ msgs[i].pc = "done" /\ msgs[i].user = "ack_result"
                    /\ msgs[i].ack_calls = 1

TimeoutOnly == Running /\ IsNone(flow_configs.max_results) /\ TimeoutSet

\* C38: in a timeout-only run (max_results None) every message acknowledged
\* with a non-None result is counted in the num_saved the run ends with: once
\* the run has ended, no message is acknowledged whose increment the driver
\* has not taken.
C38_AckedIsCounted ==
    (TimeoutOnly /\ Ended) =>
        /\ \A i \in AckedCounted : msgs[i].taken
        /\ Cardinality(AckedCounted) <= num_saved

\* unpack_and_ack_messages has run on the last pull response
Unpacked ==
    /\ received.ok /\ received.key
    /\ rest_pc \in {"loop", "raised", "returned"}
AckIds == [k \in 1..Len(received.messages) |-> received.messages[k].ackId]
BatchRaises ==
    \E k \in 1..Len(received.messages) :
        received.messages[k].outcome \in {"DecodeError", "CallbackError"}
AckRequests == {j \in 1..Len(events) : events[j].op = "ack"}

\* C39: unpack_and_ack_messages acknowledges every message of a pull
\* response, those the callback filtered out included, in one acknowledge
\* request issued after all messages were processed; if decoding or the
\* callback raises for a message of the batch, no message of the batch is
\* acknowledged.
C39_BatchAckedAfterProcessing ==
    /\ rest_pc = "pulled" => AckRequests = {}
    /\ (Unpacked /\ BatchRaises) => (AckRequests = {} /\ rest_pc = "raised")
    /\ (Unpacked /\ ~BatchRaises) =>
          /\ AckRequests = {Len(events)}
          /\ events[Len(events)].ids = AckIds
          /\ \A k \in 1..Len(AckIds) :
                \E j \in 1..(Len(events) - 1) :
                    events[j] = Event("process", <<AckIds[k]>>)

C39_Witness ==
    /\ Unpacked /\ ~BatchRaises
    /\ \E k \in 1..Len(received.messages) : received.messages[k].outcome = "None"
    /\ \E k \in 1..Len(received.messages) : received.messages[k].outcome = "alert"
    /\ events[Len(events)] = Event("ack", AckIds)
    /\ rest_pc = "loop"

RestEnded == rest_pc \in {"returned", "raised"}

\* C40: the REST broker's fetch_alerts ends after at most 5 pull requests;
\* each request asks for max_results minus the number of alerts collected so
\* far, a positive number; no request is made once max_results alerts are
\* collected; and if no pull returned more messages than it asked for,
\* at most max_results alerts are collected and returned.
C40_AtMostFivePulls ==
    /\ [](tries <= max_tries)
    /\ [][tries' # tries =>
             /\ tries' = tries + 1
             /\ alerts < rest_max_results
             /\ max_messages' = rest_max_results - alerts
             /\ max_messages' > 0
             /\ events' = <<Event("pull", <<>>)>>]_vars
    /\ [][(rest_pc = "loop" /\ alerts >= rest_max_results)
             => rest_pc' = "returned"]_vars
    /\ [](~oversized => alerts <= rest_max_results)
    /\ (rest_pc = "loop") ~> RestEnded

C40_Witness ==
    /\ rest_pc = "returned"
    /\ tries = max_tries
    /\ ~oversized
    /\ rest_max_results = 2
    /\ alerts = 1

====
